---- MODULE Spec2Model ----
(***************************************************************************)
(* Event-invitation manager (EMS): the document store (events, passes,     *)
(* scan_logs, email_logs), the Guests page (add guest, bulk import), the   *)
(* Scanner page (handleScan) and the Send Invitations page (handleSend-    *)
(* Emails), each handler split at its await points.                        *)
(*                                                                         *)
(* Conventions: an unset timestamp is 0 (the server clock starts at 1), an *)
(* unset string is "", a null pass reference is 0.  A document id of the   *)
(* pass collection is the document's index in passes.  A code is the       *)
(* sequence <<prefix, "-", c1, ..., c6>>.                                    *)
(***************************************************************************)
EXTENDS Naturals, Sequences, FiniteSets

VARIABLES
  events,       \* store: collection events (set of documents)
  passes,       \* store: collection passes (sequence, index = document id)
  scan_logs,    \* store: collection scan_logs (sequence, append-only)
  email_logs,   \* store: collection email_logs (sequence, append-only)
  now,          \* the server clock behind serverTimestamp()
  sentMails,    \* the mail service: pass ids of the messages it accepted, in order
  pc,           \* Scanner page of each operator: position inside handleScan
  scan,         \* Scanner page: locals of the handleScan call in flight
  isProcessing, \* Scanner page: React state isProcessing
  lastScannedCode, \* Scanner page: lastScannedCodeRef.current
  result,       \* Scanner page: React state result (the status card)
  pre,          \* history: store contents when the operator's call started
  nScans,       \* number of handleScan calls started so far (bounded)
  camera,       \* Scanner page: scanning, the QrScanner and its callback, the timer
  selectedEventId, \* Guests page: React state selectedEventId
  mail,         \* Send Invitations page (MailInvitations component)
  gen,          \* the last generateUniqueCode call: its inputs and its result
  route,        \* AppContent of each operator's browser: admin, hash, currentPage
  sheet,        \* the rows of the organizer's Google spreadsheet
  classified,   \* the failures classified so far: cause, message, status
  bulk,         \* Guests page: the last handleBulkImport call and its alert
  auth          \* one browser tab: Firebase Auth, AuthProvider, Login, admins

vars == <<events, passes, scan_logs, email_logs, now, sentMails, pc, scan,
          isProcessing, lastScannedCode, result, pre, nScans, camera,
          selectedEventId, mail, gen, route, sheet, classified, bulk,
          auth>>

\* The variables the Guests, Scanner and Send Invitations handlers above
\* never write.
extraVars == <<classified, bulk, auth>>
auxVars == <<gen, route, sheet, extraVars>>

storeVars == <<events, passes, scan_logs, email_logs, now>>
scanVars == <<pc, scan, isProcessing, lastScannedCode, result, pre, nScans,
              camera>>

(***************************************************************************)
(* Bounds of the model.                                                    *)
(***************************************************************************)
MaxPasses == 2
\* The scanner specifications issue at most MaxGatePasses passes and start at
\* most MaxScans handleScan calls.
MaxGatePasses == 1
MaxScans == 2

Operators == {"op1", "op2"}

\* The handleScan calls.  Each operator's page has the call started from its
\* manual entry, named like the operator; the QrScanner callback of
\* CameraPage starts the calls of CameraCalls, which may overlap.
CameraPage == "op1"
CameraCalls == {"cam1", "cam2"}
Calls == Operators \cup CameraCalls

\* The page (and signed-in operator, user.uid) of a call.
PageOf(k) == IF k \in Operators THEN k ELSE CameraPage

GuestForms == {[name |-> "Ana", email |-> "ana@x.com"],
               [name |-> "Bob", email |-> "bob@x.com"]}

(***************************************************************************)
(* generateUniqueCode: 6 characters drawn from chars by Math.random.       *)
(***************************************************************************)
chars == <<"A","B","C","D","E","F","G","H","I","J","K","L","M","N","O","P","Q",
           "R","S","T","U","V","W","X","Y","Z","0","1","2","3","4","5","6","7",
           "8","9","@","#","$","%","&","*">>

CodeLength == 6

\* Values of Math.floor(Math.random() * chars.length) over one call: a
\* bounded sample of the 42^6 possible draws.
RandomDraws == {<<0, 1, 2, 3, 4, 5>>, <<25, 26, 35, 36, 41, 0>>}

\* Mutant of generateUniqueCode: the loop runs once too often.
generateUniqueCode_SevenChars(prefix, draws) ==
  <<prefix, "-">> \o [i \in 1..(CodeLength + 1) |->
                        chars[draws[((i - 1) % CodeLength) + 1] + 1]]

generateUniqueCode(prefix, draws) ==
  <<prefix, "-">> \o [i \in 1..CodeLength |-> chars[draws[i] + 1]]

\* The prefixes and the draws generateUniqueCode is applied to on its own:
\* every index of chars occurs at every position of some draw.
Prefixes == {"EVTX", "QRP", ""}
DrawSamples ==
  {[i \in 1..CodeLength |-> (first + 7 * (i - 1)) % Len(chars)] :
     first \in 0..(Len(chars) - 1)}

NoCode == [prefix |-> "", draws |-> <<>>, code |-> <<>>]

\* selectedEvent.qr_prefix || 'QRP'
\* Mutant of PrefixOf: no default prefix.
PrefixOf_NoDefault(event) == event.qr_prefix

PrefixOf(event) == IF event.qr_prefix = "" THEN "QRP" ELSE event.qr_prefix

\* A code that no generated pass has (end-to-end scenario C).
UnknownCode == <<"ZZZZ", "-", "0", "0", "0", "0", "0", "0">>

(***************************************************************************)
(* The store.                                                              *)
(***************************************************************************)
InitialEvents == {[id |-> "ev1", title |-> "Gala", qr_prefix |-> "EVTX"],
                  [id |-> "ev2", title |-> "Expo", qr_prefix |-> ""]}

\* eventsData[0] of fetchEvents (ordered by created_at, newest first).
NewestEventId == "ev1"

\* events.find((e) => e.id === selectedEventId)
FindEvent(id) == {e \in events : e.id = id}

\* The document handleAddGuest / handleBulkImport inserts.
NewPass(event_id, code, name, email, sheet_id, t) ==
  [event_id |-> event_id, code |-> code, guest_name |-> name,
   guest_email |-> email, sheet_id |-> sheet_id, used |-> FALSE,
   sent_at |-> 0, scanned_at |-> 0, scanned_by |-> "", created_at |-> t]

PassIds == 1..Len(passes)

\* query(passes, where('code', '==', code), limit(1)): the ids the query may
\* return (any one matching document; none when the set is empty).
QueryByCode(code) == {i \in PassIds : passes[i].code = code}

\* query(passes, where('event_id', '==', e))
QueryByEvent(e) == {i \in PassIds : passes[i].event_id = e}

(***************************************************************************)
(* Strings, by their characters.                                           *)
(***************************************************************************)
\* The characters of the strings the handlers take apart: error messages,
\* the substrings looked for, and the cells of the spreadsheet.
Text(msg) ==
  CASE msg = "Address not found" ->
         <<"A","d","d","r","e","s","s"," ","n","o","t"," ","f","o","u","n","d">>
    [] msg = "Address not found - Invalid email address" ->
         <<"A","d","d","r","e","s","s"," ","n","o","t"," ","f","o","u","n","d"," ","-"," ","I","n","v","a","l","i","d"," ","e","m","a","i","l"," ","a","d","d","r","e","s","s">>
    [] msg = "Invalid email address - Recipient address rejected" ->
         <<"I","n","v","a","l","i","d"," ","e","m","a","i","l"," ","a","d","d","r","e","s","s"," ","-"," ","R","e","c","i","p","i","e","n","t"," ","a","d","d","r","e","s","s"," ","r","e","j","e","c","t","e","d">>
    [] msg = "Daily sending quota exceeded - Try again tomorrow" ->
         <<"D","a","i","l","y"," ","s","e","n","d","i","n","g"," ","q","u","o","t","a"," ","e","x","c","e","e","d","e","d"," ","-"," ","T","r","y"," ","a","g","a","i","n"," ","t","o","m","o","r","r","o","w">>
    [] msg = "The amount of data is too big to be stored in a QR Code" ->
         <<"T","h","e"," ","a","m","o","u","n","t"," ","o","f"," ","d","a","t","a"," ","i","s"," ","t","o","o"," ","b","i","g"," ","t","o"," ","b","e"," ","s","t","o","r","e","d"," ","i","n"," ","a"," ","Q","R"," ","C","o","d","e">>
    [] msg = "Missing or insufficient permissions." ->
         <<"M","i","s","s","i","n","g"," ","o","r"," ","i","n","s","u","f","f","i","c","i","e","n","t"," ","p","e","r","m","i","s","s","i","o","n","s",".">>
    [] msg = "address not found" ->
         <<"a","d","d","r","e","s","s"," ","n","o","t"," ","f","o","u","n","d">>
    [] msg = "invalid" ->
         <<"i","n","v","a","l","i","d">>
    [] msg = "recipient address rejected" ->
         <<"r","e","c","i","p","i","e","n","t"," ","a","d","d","r","e","s","s"," ","r","e","j","e","c","t","e","d">>
    [] msg = "Name" ->
         <<"N","a","m","e">>
    [] msg = "Email" ->
         <<"E","m","a","i","l">>
    [] msg = "name" ->
         <<"n","a","m","e">>
    [] msg = "email" ->
         <<"e","m","a","i","l">>
    [] msg = "@" ->
         <<"@">>
    [] msg = "Ana" ->
         <<"A","n","a">>
    [] msg = "ana@x.com" ->
         <<"a","n","a","@","x",".","c","o","m">>
    [] msg = " bob@x.com" ->
         <<" ","b","o","b","@","x",".","c","o","m">>
    [] msg = "bob@x.com" ->
         <<"b","o","b","@","x",".","c","o","m">>
    [] msg = "bob" ->
         <<"b","o","b">>
    [] msg = "Sent" ->
         <<"S","e","n","t">>
    [] msg = "Failed" ->
         <<"F","a","i","l","e","d">>
    [] msg = "Invalid" ->
         <<"I","n","v","a","l","i","d">>
    [] msg = "Failed to update sheet: The caller does not have permission" ->
         <<"F","a","i","l","e","d"," ","t","o"," ","u","p","d","a","t","e"," ","s","h","e","e","t",":"," ","T","h","e"," ","c","a","l","l","e","r"," ","d","o","e","s"," ","n","o","t"," ","h","a","v","e"," ","p","e","r","m","i","s","s","i","o","n">>
    [] msg = "Invalid to header" ->
         <<"I","n","v","a","l","i","d"," ","t","o"," ","h","e","a","d","e","r">>
    [] msg = "Recipient address rejected" ->
         <<"R","e","c","i","p","i","e","n","t"," ","a","d","d","r","e","s","s"," ","r","e","j","e","c","t","e","d">>
    [] msg = "Invalid recipients" ->
         <<"I","n","v","a","l","i","d"," ","r","e","c","i","p","i","e","n","t","s">>
    [] msg = "Daily sending quota exceeded" ->
         <<"D","a","i","l","y"," ","s","e","n","d","i","n","g"," ","q","u","o","t","a"," ","e","x","c","e","e","d","e","d">>
    [] msg = "Invalid Credentials" ->
         <<"I","n","v","a","l","i","d"," ","C","r","e","d","e","n","t","i","a","l","s">>
    [] msg = "Backend Error" ->
         <<"B","a","c","k","e","n","d"," ","E","r","r","o","r">>
    [] msg = "Failed to send email: " ->
         <<"F","a","i","l","e","d"," ","t","o"," ","s","e","n","d"," ","e","m","a","i","l",":"," ">>
    [] msg = "Failed to send email: Invalid Credentials" ->
         <<"F","a","i","l","e","d"," ","t","o"," ","s","e","n","d"," ","e","m","a","i","l",":"," ","I","n","v","a","l","i","d"," ","C","r","e","d","e","n","t","i","a","l","s">>
    [] msg = "Failed to send email: Backend Error" ->
         <<"F","a","i","l","e","d"," ","t","o"," ","s","e","n","d"," ","e","m","a","i","l",":"," ","B","a","c","k","e","n","d"," ","E","r","r","o","r">>
    [] msg = "No access token available" ->
         <<"N","o"," ","a","c","c","e","s","s"," ","t","o","k","e","n"," ","a","v","a","i","l","a","b","l","e">>
    [] msg = "Ana, ana@x.com" ->
         <<"A","n","a",","," ","a","n","a","@","x",".","c","o","m">>
    [] msg = "bob,bob@x.com" ->
         <<"b","o","b",",","b","o","b","@","x",".","c","o","m">>
    [] msg = "Ana , ana@x.com" ->
         <<"A","n","a"," ",","," ","a","n","a","@","x",".","c","o","m">>
    [] msg = ", ana@x.com" ->
         <<","," ","a","n","a","@","x",".","c","o","m">>
    [] msg = "bob," ->
         <<"b","o","b",",">>
    [] msg = "bob@email.com" ->
         <<"b","o","b","@","e","m","a","i","l",".","c","o","m">>
    [] msg = "" ->
         <<>>

UpperCase == <<"A","B","C","D","E","F","G","H","I","J","K","L","M","N","O","P",
               "Q","R","S","T","U","V","W","X","Y","Z">>
LowerCase == <<"a","b","c","d","e","f","g","h","i","j","k","l","m","n","o","p",
               "q","r","s","t","u","v","w","x","y","z">>

\* String.prototype.toLowerCase
toLowerCase(s) ==
  [i \in 1..Len(s) |->
     IF \E k \in 1..Len(UpperCase) : UpperCase[k] = s[i]
     THEN LowerCase[CHOOSE k \in 1..Len(UpperCase) : UpperCase[k] = s[i]]
     ELSE s[i]]

\* String.prototype.includes
includes(s, sub) ==
  \E k \in 0..(Len(s) - Len(sub)) : SubSeq(s, k + 1, k + Len(sub)) = sub

\* The cell strings of the model, and the string of a sequence of characters.
CellStrings == {"Name", "Email", "Ana", "ana@x.com", " bob@x.com", "bob@x.com",
                "bob@email.com",
                "bob", "Sent", "Failed", "Invalid", ""}
StringOf(cs) == CHOOSE str \in CellStrings : Text(str) = cs

\* String.prototype.trim: white space is the blank and the line break.
WhiteSpace == {" ", "\n"}
RECURSIVE trimStart(_)
trimStart(cs) ==
  IF cs # <<>> /\ Head(cs) \in WhiteSpace THEN trimStart(Tail(cs)) ELSE cs
RECURSIVE trimEnd(_)
trimEnd(cs) ==
  IF cs # <<>> /\ cs[Len(cs)] \in WhiteSpace
  THEN trimEnd(SubSeq(cs, 1, Len(cs) - 1))
  ELSE cs
trimmed(cs) == trimEnd(trimStart(cs))
trim(str) == StringOf(trimmed(Text(str)))

\* String.prototype.split by a one-character separator.
RECURSIVE split(_, _)
split(cs, sep) ==
  LET at == {k \in 1..Len(cs) : cs[k] = sep} IN
  IF at = {} THEN <<cs>>
  ELSE LET first == CHOOSE k \in at : \A m \in at : k <= m
       IN <<SubSeq(cs, 1, first - 1)>> \o split(SubSeq(cs, first + 1, Len(cs)), sep)

\* email.split('@')[0]
BeforeAt(str) ==
  LET cs == Text(str)
      at == {k \in 1..Len(cs) : cs[k] = "@"}
  IN IF at = {} THEN str
     ELSE StringOf(SubSeq(cs, 1, (CHOOSE k \in at : \A m \in at : k <= m) - 1))

\* str.includes(sub) and str.toLowerCase().includes(sub) on strings.
Has(str, sub) == includes(Text(str), Text(sub))
LowerHas(str, sub) == includes(toLowerCase(Text(str)), Text(sub))

\* a.toLowerCase() === b.toLowerCase()
SameLower(a, b) == toLowerCase(Text(a)) = toLowerCase(Text(b))

(***************************************************************************)
(* Guests page.                                                            *)
(***************************************************************************)

\* handleAddGuest: one pass for the form's guest, for the selected event.
\* A rejected addDoc is caught (alert) and leaves the store as it is.
handleAddGuest ==
  /\ Len(passes) < MaxPasses
  /\ \E selectedEvent \in FindEvent(selectedEventId), guestForm \in GuestForms,
        draws \in RandomDraws :
       LET code == generateUniqueCode(PrefixOf(selectedEvent), draws) IN
       /\ passes' = Append(passes, NewPass(selectedEvent.id, code, guestForm.name,
                                            guestForm.email, "", now))
  /\ UNCHANGED <<auxVars, events, now, scan_logs, email_logs, sentMails, scanVars,
                 selectedEventId, mail>>

\* The texts typed into the bulk-import box: two guests; a line without
\* an email, a guest, a line with an empty email; no guest at all.
BulkTwoGuests ==
  Text("Ana, ana@x.com") \o <<"\n">> \o Text("bob,bob@x.com") \o <<"\n">>
BulkOneGuest ==
  Text("bob") \o <<"\n">> \o Text("Ana , ana@x.com") \o <<"\n">> \o Text("bob,")
BulkNoGuest ==
  Text(", ana@x.com") \o <<"\n">> \o Text("bob,")
BulkTexts == {BulkTwoGuests, BulkOneGuest, BulkNoGuest}

\* const [name, email] = line.split(',').map((s) => s.trim()), '' standing
\* for undefined as well.
LineGuest(line) ==
  LET parts == split(line, ",") IN
  [name |-> StringOf(trimmed(parts[1])),
   email |-> IF Len(parts) >= 2 THEN StringOf(trimmed(parts[2])) ELSE ""]

\* Mutant of LineParses: a name is enough.
LineParses_NameOnly(line) == LineGuest(line).name # ""

\* if (name && email)
LineParses(line) == LineGuest(line).name # "" /\ LineGuest(line).email # ""

\* lines.map(...).filter(Boolean)
RECURSIVE ParseLines(_)
ParseLines(lines) ==
  IF lines = <<>> THEN <<>>
  ELSE IF LineParses(Head(lines))
       THEN <<LineGuest(Head(lines))>> \o ParseLines(Tail(lines))
       ELSE ParseLines(Tail(lines))

\* bulkText.trim().split('\n') and the guests of its lines, for every text.
BulkGuests == [t \in BulkTexts |-> ParseLines(split(trimmed(t), "\n"))]

\* The subsequence of s at the positions of keep.
RECURSIVE Pick(_, _, _)
Pick(s, keep, i) ==
  IF i > Len(s) THEN <<>>
  ELSE IF i \in keep THEN <<s[i]>> \o Pick(s, keep, i + 1)
       ELSE Pick(s, keep, i + 1)

\* The alerts of the imports: the count of imported guests, no valid guest,
\* an error.
NoAlert == [kind |-> "none", count |-> 0]
Imported(n) == [kind |-> "imported", count |-> n]
NoValidGuests == [kind |-> "no valid guests", count |-> 0]
ImportError == [kind |-> "error", count |-> 0]
NoData == [kind |-> "no data", count |-> 0]

\* No handleBulkImport call yet.
NoBulk == [text |-> <<>>, rejected |-> 0, alert |-> NoAlert]

\* handleBulkImport: one addDoc per parseable line, all started together
\* (Promise.all); the store accepts those of accepted and rejects the rest.
\* With a rejected addDoc Promise.all rejects and the catch block alerts
\* the error; the other inserts are stored all the same.
handleBulkImport ==
  \E selectedEvent \in FindEvent(selectedEventId), bulkText \in BulkTexts :
    LET guests == BulkGuests[bulkText] IN
    /\ trimmed(bulkText) # <<>>
    /\ Len(passes) + Len(guests) <= MaxPasses
    /\ IF Len(guests) = 0
       THEN /\ bulk' = [text |-> bulkText, rejected |-> 0,
                        alert |-> NoValidGuests]
            /\ UNCHANGED passes
       ELSE \E codes \in [1..Len(guests) -> RandomDraws],
               accepted \in SUBSET (1..Len(guests)) :
              LET docs == [i \in 1..Len(guests) |->
                             NewPass(selectedEvent.id,
                                     generateUniqueCode(PrefixOf(selectedEvent), codes[i]),
                                     guests[i].name, guests[i].email, "", now)]
                  stored == Pick(docs, accepted, 1)
              IN /\ passes' = passes \o stored
                 /\ bulk' = [text |-> bulkText,
                             rejected |-> Len(guests) - Cardinality(accepted),
                             alert |-> IF accepted = 1..Len(guests)
                                       THEN Imported(Len(guests))
                                       ELSE ImportError]
    /\ UNCHANGED <<gen, route, sheet, classified, auth, events, now, scan_logs,
                   email_logs, sentMails, scanVars, selectedEventId, mail>>

\* The event <select> of the Guests page (lines 25-29 refetch the list).
GuestsSelectEvent ==
  /\ \E e \in events : selectedEventId' = e.id
  /\ UNCHANGED <<auxVars, storeVars, sentMails, scanVars, mail>>

(***************************************************************************)
(* Scanner page: handleScan, one action per await.                         *)
(***************************************************************************)
NoPass == [id |-> 0]
NoResult == [status |-> "none"]
NoCall == [code |-> <<>>]
NoPre == [passes |-> <<>>, nlogs |-> 0, now |-> 0]

\* The camera of a page before Start: no QrScanner, no timer.
NoCamera == [scanning |-> FALSE, running |-> FALSE, isProcessing |-> FALSE,
             timeout |-> FALSE]

InFlight(o) == pc[o] \in {"getDocs", "getDoc", "updateDoc", "addDoc"}

\* pass.guest_name || 'Guest'
GuestOr(name) == IF name = "" THEN "Guest" ELSE name

\* Mutant of Classify: the used / scanned_at test is missing.
Classify_IgnoresUsed(pass) ==
  IF pass = NoPass THEN "invalid" ELSE "valid"

\* Lines 132-148: the classification of the matched pass (NoPass: no match).
Classify(pass) ==
  IF pass = NoPass THEN "invalid"
  ELSE IF pass.used \/ pass.scanned_at # 0 THEN "already_used"
  ELSE "valid"

MessageOf(pass) ==
  CASE Classify(pass) = "invalid" -> <<"Invalid QR Code - Pass Not Found">>
    [] Classify(pass) = "already_used" -> <<"Already Scanned - ", GuestOr(pass.guest_name)>>
    [] OTHER -> <<"Access Granted - Welcome ", GuestOr(pass.guest_name)>>

\* Lines 87-101: isProcessing and lastScannedCodeRef are set and the lookup
\* is sent.
Begin(o, code) ==
  /\ isProcessing' = [isProcessing EXCEPT ![PageOf(o)] = TRUE]
  /\ lastScannedCode' = [lastScannedCode EXCEPT ![PageOf(o)] = code]
  /\ pc' = [pc EXCEPT ![o] = "getDocs"]
  /\ scan' = [scan EXCEPT ![o] = [code |-> code, pass |-> NoPass, updated |-> FALSE]]
  /\ pre' = [pre EXCEPT ![o] = [passes |-> passes, nlogs |-> Len(scan_logs), now |-> now]]
  /\ nScans' = nScans + 1

\* Lines 75-93 and 291-305: handleScan called from the manual entry of the
\* current render.  After the guards it stops the QrScanner when the page is
\* scanning (lines 91-93).
ScanStart(o, code) ==
  /\ pc[o] \in {"idle", "done"}
  /\ nScans < MaxScans
  /\ ~isProcessing[o]
  /\ lastScannedCode[o] # code
  /\ Begin(o, code)
  /\ camera' = [camera EXCEPT ![o].running = @ /\ ~camera[o].scanning]
  /\ UNCHANGED <<auxVars, storeVars, sentMails, result, selectedEventId, mail>>

\* Lines 41-66: startScanning.  The callback handed to the QrScanner calls
\* the handleScan of this render: in it isProcessing is the value of this
\* render, scanning is false and scanner is not the new QrScanner, so the
\* calls it makes never stop the camera.
startScanning(o) ==
  /\ ~camera[o].scanning
  /\ camera' = [camera EXCEPT ![o].scanning = TRUE, ![o].running = TRUE,
                              ![o].isProcessing = isProcessing[o]]
  /\ result' = [result EXCEPT ![o] = NoResult]
  /\ UNCHANGED <<auxVars, storeVars, sentMails, pc, scan, isProcessing,
                 lastScannedCode, pre, nScans, selectedEventId, mail>>

\* Lines 68-73: stopScanning.
stopScanning(o) ==
  /\ camera[o].scanning
  /\ camera' = [camera EXCEPT ![o].scanning = FALSE, ![o].running = FALSE]
  /\ UNCHANGED <<auxVars, storeVars, sentMails, pc, scan, isProcessing,
                 lastScannedCode, result, pre, nScans, selectedEventId, mail>>

MaxDecodes == 3

\* Lines 47-49 and 75-93: the running QrScanner decodes a code (at most one
\* a second) and calls the handleScan its callback holds; k is a call not in
\* use.  A call the guards reject returns at once and changes nothing.
CameraScan(k, code) ==
  /\ camera[PageOf(k)].running
  /\ pc[k] \in {"idle", "done"}
  /\ nScans < MaxDecodes
  /\ ~camera[PageOf(k)].isProcessing
  /\ lastScannedCode[PageOf(k)] # code
  /\ Begin(k, code)
  /\ UNCHANGED <<auxVars, storeVars, sentMails, result, camera,
                 selectedEventId, mail>>

\* Mutant of Finish: the finally block is missing.
Finish_NoFinally(o, res) ==
  /\ result' = [result EXCEPT ![PageOf(o)] = res]
  /\ isProcessing' = isProcessing
  /\ pc' = [pc EXCEPT ![o] = "done"]
  /\ scan' = [scan EXCEPT ![o] = NoCall]
  /\ pre' = [pre EXCEPT ![o] = NoPre]

\* Lines 184-200: setResult, then finally setIsProcessing(false).
Finish(o, res) ==
  /\ result' = [result EXCEPT ![PageOf(o)] = res]
  /\ isProcessing' = [isProcessing EXCEPT ![PageOf(o)] = FALSE]
  /\ pc' = [pc EXCEPT ![o] = "done"]
  /\ scan' = [scan EXCEPT ![o] = NoCall]
  /\ pre' = [pre EXCEPT ![o] = NoPre]

ErrorResult ==
  [status |-> "invalid", message |-> <<"Error processing scan: ">>,
   guestName |-> "", scannedAt |-> 0, code |-> <<>>]

\* Lines 98-108 and 132-148: getDocs answers with one matching pass or none;
\* a rejected getDocs goes to the outer catch (lines 191-196).
ScanLookup(o) ==
  /\ pc[o] = "getDocs"
  /\ \/ /\ QueryByCode(scan[o].code) = {}
        /\ scan' = [scan EXCEPT ![o].pass = NoPass]
        /\ pc' = [pc EXCEPT ![o] = "addDoc"]
        /\ UNCHANGED <<result, isProcessing, pre>>
     \/ /\ \E id \in QueryByCode(scan[o].code) :
             scan' = [scan EXCEPT ![o].pass = [id |-> id, data |-> passes[id]]]
        /\ pc' = [pc EXCEPT ![o] = "getDoc"]
        /\ UNCHANGED <<result, isProcessing, pre>>
     \/ Finish(o, ErrorResult)
  /\ UNCHANGED <<auxVars, storeVars, sentMails, lastScannedCode, nScans,
                 camera, selectedEventId, mail>>

PassOf(o) == IF scan[o].pass = NoPass THEN NoPass ELSE scan[o].pass.data

\* Lines 112-148: getDoc of the event (its title is shown nowhere in the
\* result; a rejected getDoc is swallowed), then the classification.
ScanFetchEvent(o) ==
  /\ pc[o] = "getDoc"
  /\ pc' = [pc EXCEPT ![o] = IF Classify(PassOf(o)) = "valid" THEN "updateDoc"
                              ELSE "addDoc"]
  /\ UNCHANGED <<auxVars, storeVars, sentMails, scan, isProcessing,
                 lastScannedCode, result, pre, nScans, camera, selectedEventId,
                 mail>>

\* Mutant of MarkUsed: scanned_by is not written.
MarkUsed_NoScannedBy(pass, uid, t) ==
  [pass EXCEPT !.used = TRUE, !.scanned_at = t]

\* Lines 154-158: the fields updateDoc writes on the pass.
MarkUsed(pass, uid, t) ==
  [pass EXCEPT !.used = TRUE, !.scanned_at = t, !.scanned_by = uid]

\* Lines 150-163: updateDoc on the matched pass; a rejected update is
\* swallowed by the inner catch.
ScanUpdate(o) ==
  /\ pc[o] = "updateDoc"
  /\ \/ /\ passes' = [passes EXCEPT ![scan[o].pass.id] =
                                       MarkUsed(@, PageOf(o), now)]
        /\ now' = now + 1
        /\ scan' = [scan EXCEPT ![o].updated = TRUE]
     \/ UNCHANGED <<passes, now, scan>>
  /\ pc' = [pc EXCEPT ![o] = "addDoc"]
  /\ UNCHANGED <<auxVars, events, scan_logs, email_logs, sentMails,
                 isProcessing, lastScannedCode, result, pre, nScans, camera,
                 selectedEventId, mail>>

\* Mutant of ScanLogEntry: the code logged is the pass's, not the scanned one.
ScanLogEntry_PassCode(o, t) ==
  LET pass == PassOf(o) IN
  [pass_id |-> scan[o].pass.id,
   scanned_code |-> IF pass = NoPass THEN <<>> ELSE pass.code,
   scanner_id |-> PageOf(o), status |-> Classify(pass),
   event_id |-> IF pass = NoPass THEN "" ELSE pass.event_id,
   guest_name |-> IF pass = NoPass THEN "" ELSE pass.guest_name,
   scanned_at |-> t]

\* Lines 170-178: the scan log document.
ScanLogEntry(o, t) ==
  LET pass == PassOf(o) IN
  [pass_id |-> scan[o].pass.id, scanned_code |-> scan[o].code,
   scanner_id |-> PageOf(o), status |-> Classify(pass),
   event_id |-> IF pass = NoPass THEN "" ELSE pass.event_id,
   guest_name |-> IF pass = NoPass THEN "" ELSE pass.guest_name,
   scanned_at |-> t]

\* Mutant of ScanResult: the status shown is taken from the stored pass
\* after the update instead of the classification made before it.
ScanResult_FromStore(o) ==
  LET pass == IF scan[o].pass = NoPass THEN NoPass
              ELSE passes[scan[o].pass.id] IN
  [status |-> Classify(pass), message |-> MessageOf(pass),
   guestName |-> IF pass = NoPass THEN "" ELSE pass.guest_name,
   scannedAt |-> IF Classify(pass) = "already_used" THEN pass.scanned_at ELSE 0,
   code |-> scan[o].code]

\* Lines 184-190: the result shown to the operator.
ScanResult(o) ==
  LET pass == PassOf(o) IN
  [status |-> Classify(pass), message |-> MessageOf(pass),
   guestName |-> IF pass = NoPass THEN "" ELSE pass.guest_name,
   scannedAt |-> IF Classify(pass) = "already_used" THEN pass.scanned_at ELSE 0,
   code |-> scan[o].code]

\* Lines 166-200: addDoc of the scan log (a rejected addDoc is swallowed),
\* then setResult and the finally block.
ScanLog(o) ==
  /\ pc[o] = "addDoc"
  /\ \/ scan_logs' = Append(scan_logs, ScanLogEntry(o, now))
     \/ UNCHANGED scan_logs
  /\ Finish(o, ScanResult(o))
  /\ UNCHANGED <<auxVars, events, passes, now, email_logs, sentMails,
                 lastScannedCode, nScans, camera, selectedEventId, mail>>

\* Lines 330-348: the Resume Scanning / Close button of the result card,
\* pressed when no call from the manual entry is in flight.  It clears the
\* card, the flag and the ref, arms the 2-second timer and restarts the
\* QrScanner when the page is scanning.
ScanDismiss(o) ==
  /\ \/ pc[o] = "done"
     \/ pc[o] = "idle" /\ result[o] # NoResult
  /\ result' = [result EXCEPT ![o] = NoResult]
  /\ isProcessing' = [isProcessing EXCEPT ![o] = FALSE]
  /\ lastScannedCode' = [lastScannedCode EXCEPT ![o] = <<>>]
  /\ pc' = [pc EXCEPT ![o] = "idle"]
  /\ camera' = [camera EXCEPT ![o].timeout = TRUE,
                              ![o].running = camera[o].scanning]
  /\ UNCHANGED <<auxVars, storeVars, sentMails, scan, pre, nScans,
                 selectedEventId, mail>>

\* Lines 341-343: the timer armed by the button fires and clears the ref.
ScanTimeout(o) ==
  /\ camera[o].timeout
  /\ camera' = [camera EXCEPT ![o].timeout = FALSE]
  /\ lastScannedCode' = [lastScannedCode EXCEPT ![o] = <<>>]
  /\ UNCHANGED <<auxVars, storeVars, sentMails, pc, scan, isProcessing, result,
                 pre, nScans, selectedEventId, mail>>

\* The codes an operator may present: those of the passes and an unknown one.
ScannableCodes == {passes[i].code : i \in PassIds} \cup {UnknownCode}

handleScan ==
  \E o \in Operators :
    \/ \E code \in ScannableCodes : ScanStart(o, code)
    \/ ScanLookup(o)
    \/ ScanFetchEvent(o)
    \/ ScanUpdate(o)
    \/ ScanLog(o)
    \/ ScanDismiss(o)

(***************************************************************************)
(* Send Invitations page: fetchPasses and handleSendEmails, one action per *)
(* await.  mail.run, mail.event are the passes and selectedEventId the     *)
(* handler captured when it was called; mail.i is its loop index (from 1). *)
(***************************************************************************)
(***************************************************************************)
(* The Google spreadsheet: rows of cells.  readGoogleSheet of range A:B    *)
(* returns the first two columns of every row.                             *)
(***************************************************************************)
\* What the organizer may have typed into the spreadsheet.
SheetSamples ==
  { << <<"Name", "Email">>, <<"Ana", "ana@x.com">> >>,
    << <<" bob@x.com">> >>,
    << <<"bob", "bob@email.com">> >> }

\* row[j] of a row read from the sheet, '' standing for undefined as well
\* (j counts from 0).
Cell(row, j) == IF j + 1 \in 1..Len(row) THEN row[j + 1] ELSE ""

\* readGoogleSheet(sheetId, 'Email List!A:B')
readGoogleSheet(rows) ==
  [r \in 1..Len(rows) |-> SubSeq(rows[r], 1, IF Len(rows[r]) < 2 THEN Len(rows[r]) ELSE 2)]

\* Index (from 0) of the first data row: 1 when the first row is a header.
StartRow(data) ==
  IF LowerHas(Cell(data[1], 0), "name") \/ LowerHas(Cell(data[1], 1), "email")
  THEN 1 ELSE 0

\* row.length >= 2 && row[1]?.includes('@')
IsNameEmailRow(row) == Len(row) >= 2 /\ Has(Cell(row, 1), "@")

\* updateGoogleSheet(sheetId, status column and timestamp column of rowNum):
\* rows with the two cells written at columns col and col + 1 (from 1).
WriteCells(rows, rowNum, col, status, t) ==
  [rows EXCEPT ![rowNum] =
     [c \in 1..(col + 1) |->
        IF c = col THEN status
        ELSE IF c = col + 1 THEN t
        ELSE Cell(rows[rowNum], c - 1)]]

\* Mutant of FailureStatus: every error is classified failed.
FailureStatus_AlwaysFailed(msg) == "failed"

\* Lines 456-462: the heuristic classification of a caught error.
FailureStatus(msg) ==
  LET m == toLowerCase(Text(msg)) IN
  IF \/ includes(m, Text("address not found"))
     \/ includes(m, Text("invalid"))
     \/ includes(m, Text("recipient address rejected"))
  THEN "invalid" ELSE "failed"

\* qrGenerator.ts lines 259-277: error.error?.message of a response of the
\* Gmail API that is not ok (400 for the recipient, 429 for the quota, 401
\* for an access token that expired or was revoked, 500).
GmailApiErrors == {"Invalid to header", "Recipient address rejected",
                   "Invalid recipients", "Address not found",
                   "Daily sending quota exceeded", "Invalid Credentials",
                   "Backend Error"}

\* The messages of the errors a send can end with, and the message of a
\* sequence of characters.
ErrorMessages == {"Invalid email address - Recipient address rejected",
                  "Address not found - Invalid email address",
                  "Daily sending quota exceeded - Try again tomorrow",
                  "Failed to send email: Invalid Credentials",
                  "Failed to send email: Backend Error",
                  "No access token available"}
ErrorOf(cs) == CHOOSE m \in ErrorMessages : Text(m) = cs

\* qrGenerator.ts lines 225-277: the message of the error sendGmail throws
\* without an access token, or for the response errorMessage of the API.
sendGmail(hasToken, errorMessage) ==
  IF ~hasToken THEN "No access token available"
  ELSE IF \/ Has(errorMessage, "Invalid to header")
          \/ Has(errorMessage, "Recipient address rejected")
          \/ Has(errorMessage, "Invalid recipients")
       THEN "Invalid email address - Recipient address rejected"
       ELSE IF Has(errorMessage, "Address not found")
            THEN "Address not found - Invalid email address"
            ELSE IF Has(errorMessage, "Daily sending quota exceeded")
                 THEN "Daily sending quota exceeded - Try again tomorrow"
                 ELSE ErrorOf(Text("Failed to send email: ") \o Text(errorMessage))

\* Messages of errors sendGmail raises.
SendErrors == {"Address not found - Invalid email address",
               "Daily sending quota exceeded - Try again tomorrow"}

\* The error of a QR rendering that fails, and of a store write that is
\* rejected.
QRError == "The amount of data is too big to be stored in a QR Code"
StoreError == "Missing or insufficient permissions."

\* The error of an updateGoogleSheet the Sheets API refuses, and the
\* new Date().toLocaleString() written next to a status.
SheetError == "Failed to update sheet: The caller does not have permission"
LocaleTime == "11/4/2026, 9:00:00 AM"

NoError == [message |-> "", thrownAt |-> ""]

\* What can go wrong in an iteration of the dispatcher, by cause: the
\* recipient, the quota, the access token (missing, or refused by the API),
\* another answer of the API, the QR rendering, a store write.
Failures ==
  {[cause |-> "recipient", message |-> sendGmail(TRUE, m)] :
     m \in {"Invalid to header", "Recipient address rejected",
            "Invalid recipients", "Address not found"}}
  \cup {[cause |-> "quota",
         message |-> sendGmail(TRUE, "Daily sending quota exceeded")],
        [cause |-> "credentials",
         message |-> sendGmail(TRUE, "Invalid Credentials")],
        [cause |-> "token", message |-> sendGmail(FALSE, "")],
        [cause |-> "server", message |-> sendGmail(TRUE, "Backend Error")],
        [cause |-> "qr", message |-> QRError],
        [cause |-> "store", message |-> StoreError]}

\* Lines 453-462 (and 299-308): the catch block classifies the error.
ClassifyFailure ==
  /\ \E f \in Failures :
       classified' = classified \cup
         {[cause |-> f.cause, message |-> f.message,
           status |-> FailureStatus(f.message)]}
  /\ UNCHANGED <<storeVars, sentMails, scanVars, selectedEventId, mail, gen,
                 route, sheet, bulk, auth>>

NoStatus == [total |-> 0, sent |-> 0, failed |-> 0, inProgress |-> FALSE]

\* Bounds of the dispatcher: runs started, and awaits that fail (mail.runs
\* and mail.failures count them).
MaxRuns == 2
MaxFailures == 2

\* The page once mounted: the newest event is selected and its passes are
\* being fetched (lines 54-63 and 94-96).
\* No handleSheetImport call in progress.
NoImport == [pc |-> "idle"]

MailInit ==
  [selectedEventId |-> NewestEventId, passes |-> <<>>, status |-> NoStatus,
   fetches |-> {NewestEventId}, pc |-> "idle", run |-> <<>>, event |-> "",
   i |-> 0, error |-> NoError, nlogs |-> 0, runs |-> 0, failures |-> 0,
   sheetId |-> "", import |-> NoImport, runSheetId |-> "", data |-> <<>>,
   alert |-> NoAlert]

\* The documents of ids (a set of pass ids), in id order, as
\* {id: d.id, ...d.data()}.
RECURSIVE Docs(_, _)
Docs(ids, from) ==
  IF from > Len(passes) THEN <<>>
  ELSE IF from \in ids
       THEN <<[id |-> from, data |-> passes[from]]>> \o Docs(ids, from + 1)
       ELSE Docs(ids, from + 1)

\* Lines 112-118: the fetched passes that have no sent_at.
UnsentOf(e) == Docs({id \in QueryByEvent(e) : passes[id].sent_at = 0}, 1)

\* Lines 102-124: a pending fetchPasses gets its answer and calls setPasses;
\* a rejected getDocs is swallowed and leaves the list as it is.
fetchPasses ==
  /\ \E e \in mail.fetches :
       \/ mail' = [mail EXCEPT !.fetches = @ \ {e}, !.passes = UnsentOf(e)]
       \/ /\ mail.failures < MaxFailures
          /\ mail' = [mail EXCEPT !.fetches = @ \ {e}, !.failures = @ + 1]
  /\ UNCHANGED <<auxVars, storeVars, sentMails, scanVars, selectedEventId>>

\* Lines 345-371: the Send button (enabled when no run is in progress and
\* the list is not empty), confirmed.
SendStart ==
  /\ mail.pc = "idle"
  /\ ~mail.status.inProgress
  /\ Len(mail.passes) > 0
  /\ FindEvent(mail.selectedEventId) # {}
  /\ mail.runs < MaxRuns
  /\ mail' = [mail EXCEPT !.status = [total |-> Len(mail.passes), sent |-> 0,
                                      failed |-> 0, inProgress |-> TRUE],
                          !.run = mail.passes,
                          !.event = mail.selectedEventId,
                          !.runSheetId = mail.sheetId,
                          !.i = 1,
                          !.pc = "qr",
                          !.nlogs = Len(email_logs),
                          !.runs = @ + 1]
  /\ UNCHANGED <<auxVars, storeVars, sentMails, scanVars, selectedEventId>>

\* The pass of the current iteration.
CurrentPass == mail.run[mail.i]

\* Lines 409 and 465: pass.sheet_id && sheetId.
SheetTracked == CurrentPass.data.sheet_id # "" /\ mail.runSheetId # ""

\* Entering the catch block of the iteration (line 453) with the error of
\* the await at thrownAt: the sheet write-back of a pass imported from a
\* sheet comes first, then the log entry.
Catch(msg, at) ==
  /\ mail.failures < MaxFailures
  /\ mail' = [mail EXCEPT !.pc = IF SheetTracked THEN "sheetSync"
                                ELSE "logFailed",
                          !.error = [message |-> msg, thrownAt |-> at],
                          !.failures = @ + 1]

\* Line 381: generateQRCodeDataURL(pass.code).
SendQR ==
  /\ mail.pc = "qr"
  /\ \/ mail' = [mail EXCEPT !.pc = "sendGmail"]
     \/ Catch(QRError, "qr")
  /\ UNCHANGED <<auxVars, storeVars, sentMails, scanVars, selectedEventId>>

\* Lines 395-400: sendGmail; the mail service accepts the message or the
\* call throws.
SendMail ==
  /\ mail.pc = "sendGmail"
  /\ \/ /\ sentMails' = Append(sentMails, CurrentPass.id)
        /\ mail' = [mail EXCEPT !.pc = "updateDoc"]
     \/ /\ \E msg \in SendErrors : Catch(msg, "sendGmail")
        /\ UNCHANGED sentMails
  /\ UNCHANGED <<auxVars, storeVars, scanVars, selectedEventId>>

\* Mutant of MarkSent: the update leaves sent_at out.
MarkSent_NoSentAt(pass, t) == pass

\* Lines 404-406: the fields updateDoc writes, sent_at: serverTimestamp().
MarkSent(pass, t) == [pass EXCEPT !.sent_at = t]

\* Lines 403-409: updateDoc sets sent_at on the pass; the sheet write-back
\* follows for a pass imported from a sheet.
SendMarkSent ==
  /\ mail.pc = "updateDoc"
  /\ \/ /\ passes' = [passes EXCEPT ![CurrentPass.id] = MarkSent(@, now)]
        /\ now' = now + 1
        /\ mail' = [mail EXCEPT !.pc = IF SheetTracked THEN "sheetSync"
                                      ELSE "logSent"]
     \/ /\ Catch(StoreError, "updateDoc")
        /\ UNCHANGED <<passes, now>>
  /\ UNCHANGED <<auxVars, events, scan_logs, email_logs, sentMails, scanVars,
                 selectedEventId>>

\* Lines 414-415: isNameEmailFormat of the sheet data.
IsNameEmailFormat(data) ==
  /\ StartRow(data) + 1 <= Len(data)
  /\ IsNameEmailRow(data[StartRow(data) + 1])

\* Lines 417-423: sheetData.findIndex by the email column, -1 when no row
\* has the email of the pass.
EmailIndex(data, email) ==
  LET col == IF IsNameEmailFormat(data) THEN 1 ELSE 0
      hits == {r \in 1..Len(data) : /\ Cell(data[r], col) # ""
                                    /\ SameLower(Cell(data[r], col), email)}
  IN IF hits = {} THEN 0 - 1
     ELSE (CHOOSE r \in hits : \A q \in hits : r <= q) - 1

\* Lines 303-308 and 486: the status written to the sheet for a failure.
SheetStatus(msg) == IF FailureStatus(msg) = "invalid" THEN "Invalid" ELSE "Failed"

\* Lines 409-438 and 465-494: the write-back of handleSendEmails, inside
\* its own try/catch: the sheet is read and the row of the email gets the
\* status, or the email has no row, or one of the two calls throws and the
\* error is dropped.  The log entry follows in every case.
SendSheetSync ==
  /\ mail.pc = "sheetSync"
  /\ LET data == readGoogleSheet(sheet)
         index == EmailIndex(data, CurrentPass.data.guest_email)
         value == IF mail.error = NoError THEN "Sent"
                  ELSE SheetStatus(mail.error.message)
         after == IF mail.error = NoError THEN "logSent" ELSE "logFailed"
     IN \/ /\ Len(data) > 0
           /\ index >= 0
           /\ sheet' = WriteCells(sheet, index + 1,
                                  IF IsNameEmailFormat(data) THEN 3 ELSE 2,
                                  value, LocaleTime)
           /\ mail' = [mail EXCEPT !.pc = after]
        \/ /\ Len(data) = 0 \/ index < 0
           /\ mail' = [mail EXCEPT !.pc = after]
           /\ UNCHANGED sheet
        \/ /\ mail.failures < MaxFailures
           /\ mail' = [mail EXCEPT !.pc = after, !.failures = @ + 1]
           /\ UNCHANGED sheet
  /\ UNCHANGED <<storeVars, sentMails, scanVars, selectedEventId, gen, route,
                 extraVars>>

\* Lines 442-449 and 498-506: the email log document.
EmailLogEntry(stat, msg) ==
  [pass_id |-> CurrentPass.id, event_id |-> mail.event,
   recipient_email |-> CurrentPass.data.guest_email,
   subject |-> "Your Event Invitation", status |-> stat,
   error_message |-> msg, sent_at |-> now]

\* Lines 440-452: the email log entry of a send that succeeded.
SendLogSent ==
  /\ mail.pc = "logSent"
  /\ \/ /\ email_logs' = Append(email_logs, EmailLogEntry("sent", ""))
        /\ mail' = [mail EXCEPT !.pc = "delay", !.status.sent = @ + 1]
     \/ /\ Catch(StoreError, "addDoc")
        /\ UNCHANGED email_logs
  /\ UNCHANGED <<auxVars, events, passes, scan_logs, now, sentMails, scanVars,
                 selectedEventId>>

\* Lines 453-510: the catch block.  Its addDoc is not guarded: when the
\* store rejects it the error leaves handleSendEmails, the loop ends and
\* status.inProgress stays true.
SendLogFailed ==
  /\ mail.pc = "logFailed"
  /\ \/ /\ email_logs' = Append(email_logs,
                                EmailLogEntry(FailureStatus(mail.error.message),
                                              mail.error.message))
        /\ mail' = [mail EXCEPT !.pc = "delay", !.status.failed = @ + 1,
                                !.error = NoError]
     \/ /\ mail.failures < MaxFailures
        /\ mail' = [mail EXCEPT !.pc = "aborted", !.failures = @ + 1]
        /\ UNCHANGED email_logs
  /\ UNCHANGED <<auxVars, events, passes, scan_logs, now, sentMails, scanVars,
                 selectedEventId>>

\* Lines 512-518: the one-second delay, then the next pass or the end of the
\* run (inProgress reset, fetchPasses started).
SendDelay ==
  /\ mail.pc = "delay"
  /\ \/ /\ mail.i < Len(mail.run)
        /\ mail' = [mail EXCEPT !.i = @ + 1, !.pc = "qr",
                                !.nlogs = Len(email_logs)]
     \/ /\ mail.i = Len(mail.run)
        /\ mail' = [mail EXCEPT !.status.inProgress = FALSE, !.pc = "idle",
                                !.run = <<>>, !.i = 0,
                                !.fetches = @ \cup {mail.event}]
  /\ UNCHANGED <<auxVars, storeVars, sentMails, scanVars, selectedEventId>>

\* The steps of handleSendEmails for passes no sheet tracks; SendSheetSync
\* is its further step for the passes imported from a sheet.
handleSendEmails ==
  \/ SendStart
  \/ SendQR
  \/ SendMail
  \/ SendMarkSent
  \/ SendLogSent
  \/ SendLogFailed
  \/ SendDelay

(***************************************************************************)
(* Send Invitations page: event selection and Google Sheet import.         *)
(***************************************************************************)
\* Lines 59-63: the event <select>; the effect fetches the passes.
MailSelectEvent ==
  /\ \E e \in events :
       /\ e.id # mail.selectedEventId
       /\ mail' = [mail EXCEPT !.selectedEventId = e.id,
                               !.fetches = @ \cup {e.id}]
  /\ UNCHANGED <<auxVars, storeVars, sentMails, scanVars, selectedEventId>>

\* The organizer fills the blank spreadsheet.
TypeSheet ==
  /\ sheet = <<>>
  /\ sheet' \in SheetSamples
  /\ UNCHANGED <<storeVars, sentMails, scanVars, selectedEventId, mail, gen,
                 route, extraVars>>

\* Line 857: the Google Sheet ID field.
SetSheetId ==
  /\ mail.sheetId = ""
  /\ mail' = [mail EXCEPT !.sheetId = "sheet1"]
  /\ UNCHANGED <<auxVars, storeVars, sentMails, scanVars, selectedEventId>>

\* Lines 521-541: the guards of handleSheetImport; the call keeps the
\* selectedEventId and sheetId of its render.
ImportStart ==
  /\ mail.import.pc = "idle"
  /\ mail.sheetId # ""
  /\ FindEvent(mail.selectedEventId) # {}
  /\ Len(passes) + Len(sheet) <= MaxPasses
  /\ mail' = [mail EXCEPT !.import = [pc |-> "readGoogleSheet",
                                      event |-> mail.selectedEventId,
                                      sheetId |-> mail.sheetId,
                                      data |-> <<>>, i |-> 0, imported |-> 0,
                                      failed |-> 0]]
  /\ UNCHANGED <<auxVars, storeVars, sentMails, scanVars, selectedEventId>>

\* Lines 543-554: readGoogleSheet answers (no data: alert and return) or
\* throws (lines 607-611).
ImportRead ==
  /\ mail.import.pc = "readGoogleSheet"
  /\ \/ LET data == readGoogleSheet(sheet) IN
        IF Len(data) = 0
        THEN mail' = [mail EXCEPT !.import = NoImport, !.alert = NoData]
        ELSE mail' = [mail EXCEPT !.import.pc = "rows", !.import.data = data,
                                  !.import.i = StartRow(data)]
     \/ mail' = [mail EXCEPT !.import = NoImport, !.alert = ImportError]
  /\ UNCHANGED <<auxVars, storeVars, sentMails, scanVars, selectedEventId>>

\* Lines 559-576: name and email of a row, or no guest for a row to skip.
NoGuest == [name |-> "", email |-> ""]
RowGuest(row) ==
  IF IsNameEmailRow(row)
  THEN [name |-> trim(Cell(row, 0)), email |-> trim(Cell(row, 1))]
  ELSE IF Has(Cell(row, 0), "@")
       THEN [name |-> BeforeAt(trim(Cell(row, 0))), email |-> trim(Cell(row, 0))]
       ELSE NoGuest

\* Lines 556-598: one iteration of the loop: the row is skipped, or a code
\* is generated and addDoc stores the pass or is rejected (logged).
ImportRow ==
  /\ mail.import.pc = "rows"
  /\ mail.import.i < Len(mail.import.data)
  /\ LET guest == RowGuest(mail.import.data[mail.import.i + 1])
         selectedEvent == CHOOSE e \in events : e.id = mail.import.event
     IN IF guest.email = ""
        THEN /\ mail' = [mail EXCEPT !.import.i = @ + 1]
             /\ UNCHANGED passes
        ELSE \E draws \in RandomDraws :
               \/ /\ passes' = Append(passes,
                                      NewPass(mail.import.event,
                                              generateUniqueCode(PrefixOf(selectedEvent), draws),
                                              guest.name, guest.email,
                                              mail.import.sheetId, now))
                  /\ mail' = [mail EXCEPT !.import.i = @ + 1,
                                          !.import.imported = @ + 1]
               \/ /\ mail' = [mail EXCEPT !.import.i = @ + 1,
                                          !.import.failed = @ + 1]
                  /\ UNCHANGED passes
  /\ UNCHANGED <<auxVars, events, scan_logs, email_logs, now, sentMails, scanVars,
                 selectedEventId>>

\* Lines 600-606: the alert with the count, then fetchPasses.
ImportEnd ==
  /\ mail.import.pc = "rows"
  /\ mail.import.i >= Len(mail.import.data)
  /\ mail' = [mail EXCEPT !.import = NoImport,
                          !.alert = Imported(mail.import.imported),
                          !.fetches = @ \cup {mail.import.event}]
  /\ UNCHANGED <<auxVars, storeVars, sentMails, scanVars, selectedEventId>>

handleSheetImport == ImportStart \/ ImportRead \/ ImportRow \/ ImportEnd

(***************************************************************************)
(* Send Invitations page: handleSendWithSheetUpdate ("Send & Track in      *)
(* Sheet"), one action per await.  mail.data is the sheetData it read.     *)
(***************************************************************************)
\* Lines 227-238: the key of row i (from 0) in emailToRowMap, '' for none.
RowKey(data, i) ==
  LET row == data[i + 1] IN
  IF IsNameEmailFormat(data) /\ Cell(row, 1) # ""
  THEN toLowerCase(Text(trim(Cell(row, 1))))
  ELSE IF Cell(row, 0) # "" THEN toLowerCase(Text(trim(Cell(row, 0))))
       ELSE <<>>

\* Lines 285 and 311: emailToRowMap.get(pass.guest_email.toLowerCase()),
\* the 1-indexed row the last set() left for the key, 0 for undefined.
RowNum(data, email) ==
  LET hits == {i \in StartRow(data)..(Len(data) - 1) :
                 /\ RowKey(data, i) # <<>>
                 /\ RowKey(data, i) = toLowerCase(Text(email))}
  IN IF Len(data) = 0 \/ hits = {} THEN 0
     ELSE (CHOOSE i \in hits : \A q \in hits : i >= q) + 1

\* Lines 290-291: the status column, C for the Name+Email format, B else.
StatusCol(data) == IF Len(data) > 0 /\ IsNameEmailFormat(data) THEN 3 ELSE 2

\* Lines 192-210: the button (shown when sheetId is set, enabled when no
\* run is in progress and the list is not empty) and the guards.
SheetSendStart ==
  /\ mail.pc = "idle"
  /\ ~mail.status.inProgress
  /\ mail.sheetId # ""
  /\ Len(mail.passes) > 0
  /\ \E n \in 1..Len(mail.passes) : mail.passes[n].data.sent_at = 0
  /\ FindEvent(mail.selectedEventId) # {}
  /\ mail.runs < MaxRuns
  /\ mail' = [mail EXCEPT !.run = SelectSeq(mail.passes,
                                            LAMBDA p : p.data.sent_at = 0),
                          !.event = mail.selectedEventId,
                          !.runSheetId = mail.sheetId,
                          !.pc = "readSheet",
                          !.runs = @ + 1]
  /\ UNCHANGED <<auxVars, storeVars, sentMails, scanVars, selectedEventId>>

\* Lines 214-249: readGoogleSheet answers and the status is reset, or it
\* throws and the outer catch (lines 338-342) ends the call.
SheetSendRead ==
  /\ mail.pc = "readSheet"
  /\ \/ mail' = [mail EXCEPT !.data = readGoogleSheet(sheet),
                             !.status = [total |-> Len(mail.run), sent |-> 0,
                                         failed |-> 0, inProgress |-> TRUE],
                             !.i = 1,
                             !.nlogs = Len(email_logs),
                             !.pc = "sheetQr"]
     \/ /\ mail.failures < MaxFailures
        /\ mail' = [mail EXCEPT !.status.inProgress = FALSE, !.pc = "idle",
                                !.run = <<>>, !.failures = @ + 1]
  /\ UNCHANGED <<auxVars, storeVars, sentMails, scanVars, selectedEventId>>

\* Entering the catch block of the iteration (line 299).
SheetCatch(msg, at) ==
  /\ mail.failures < MaxFailures
  /\ mail' = [mail EXCEPT !.pc = "sheetCatch",
                          !.error = [message |-> msg, thrownAt |-> at],
                          !.failures = @ + 1]

\* Line 257: generateQRCodeDataURL(pass.code).
SheetSendQR ==
  /\ mail.pc = "sheetQr"
  /\ \/ mail' = [mail EXCEPT !.pc = "sheetSendGmail"]
     \/ SheetCatch(QRError, "qr")
  /\ UNCHANGED <<auxVars, storeVars, sentMails, scanVars, selectedEventId>>

\* Lines 271-276: sendGmail.
SheetSendMail ==
  /\ mail.pc = "sheetSendGmail"
  /\ \/ /\ sentMails' = Append(sentMails, CurrentPass.id)
        /\ mail' = [mail EXCEPT !.pc = "sheetUpdateDoc"]
     \/ /\ \E msg \in SendErrors : SheetCatch(msg, "sendGmail")
        /\ UNCHANGED sentMails
  /\ UNCHANGED <<auxVars, storeVars, scanVars, selectedEventId>>

\* Lines 279-286 and 297: updateDoc sets sent_at; with no row for the email
\* the pass is counted sent at once.
SheetSendMarkSent ==
  /\ mail.pc = "sheetUpdateDoc"
  /\ \/ /\ passes' = [passes EXCEPT ![CurrentPass.id] = MarkSent(@, now)]
        /\ now' = now + 1
        /\ IF RowNum(mail.data, CurrentPass.data.guest_email) # 0
           THEN mail' = [mail EXCEPT !.pc = "updateGoogleSheet"]
           ELSE mail' = [mail EXCEPT !.pc = "sheetDelay",
                                     !.status.sent = @ + 1]
     \/ /\ SheetCatch(StoreError, "updateDoc")
        /\ UNCHANGED <<passes, now>>
  /\ UNCHANGED <<auxVars, events, scan_logs, email_logs, sentMails, scanVars,
                 selectedEventId>>

\* Lines 286-298: updateGoogleSheet writes 'Sent' in the row of the email
\* and the pass is counted sent.  The call stands in the try block of the
\* iteration: when it throws, the catch block of line 299 runs.
SheetSendWriteSent ==
  /\ mail.pc = "updateGoogleSheet"
  /\ \/ /\ sheet' = WriteCells(sheet,
                                RowNum(mail.data, CurrentPass.data.guest_email),
                                StatusCol(mail.data), "Sent", LocaleTime)
        /\ mail' = [mail EXCEPT !.pc = "sheetDelay", !.status.sent = @ + 1]
     \/ /\ SheetCatch(SheetError, "updateGoogleSheet")
        /\ UNCHANGED sheet
  /\ UNCHANGED <<storeVars, sentMails, scanVars, selectedEventId, gen, route,
                 extraVars>>

\* Lines 299-330: the catch block: the failure status goes to the row of
\* the email (an error of this write is dropped) and the pass is counted
\* failed.  No email log is written.
SheetSendFailed ==
  /\ mail.pc = "sheetCatch"
  /\ LET rowNum == RowNum(mail.data, CurrentPass.data.guest_email)
         counted == [mail EXCEPT !.pc = "sheetDelay", !.status.failed = @ + 1,
                                 !.error = NoError]
     IN \/ /\ rowNum # 0
           /\ sheet' = WriteCells(sheet, rowNum, StatusCol(mail.data),
                                  SheetStatus(mail.error.message), LocaleTime)
           /\ mail' = counted
        \/ /\ rowNum # 0
           /\ mail.failures < MaxFailures
           /\ mail' = [counted EXCEPT !.failures = @ + 1]
           /\ UNCHANGED sheet
        \/ /\ rowNum = 0
           /\ mail' = counted
           /\ UNCHANGED sheet
  /\ UNCHANGED <<storeVars, sentMails, scanVars, selectedEventId, gen, route,
                 extraVars>>

\* Lines 332-337: the one-second delay, then the next pass or the end of the
\* run (inProgress reset, fetchPasses started).
SheetSendDelay ==
  /\ mail.pc = "sheetDelay"
  /\ \/ /\ mail.i < Len(mail.run)
        /\ mail' = [mail EXCEPT !.i = @ + 1, !.pc = "sheetQr",
                                !.nlogs = Len(email_logs)]
     \/ /\ mail.i = Len(mail.run)
        /\ mail' = [mail EXCEPT !.status.inProgress = FALSE, !.pc = "idle",
                                !.run = <<>>, !.i = 0,
                                !.fetches = @ \cup {mail.event}]
  /\ UNCHANGED <<auxVars, storeVars, sentMails, scanVars, selectedEventId>>

handleSendWithSheetUpdate ==
  \/ SheetSendStart
  \/ SheetSendRead
  \/ SheetSendQR
  \/ SheetSendMail
  \/ SheetSendMarkSent
  \/ SheetSendWriteSent
  \/ SheetSendFailed
  \/ SheetSendDelay

(***************************************************************************)
(* Events page.                                                            *)
(***************************************************************************)
\* Mutant of deleteDoc: the whole collection goes.
deleteDoc_All(docs, id) == {}

\* deleteDoc(doc(db, collection, id)): the document of that id is removed.
deleteDoc(docs, id) == {d \in docs : d.id # id}

\* handleDeleteEvent, confirmed: deleteDoc of the event document; a rejected
\* deleteDoc is swallowed and changes nothing.
handleDeleteEvent ==
  /\ \E e \in events : events' = deleteDoc(events, e.id)
  /\ UNCHANGED <<auxVars, passes, scan_logs, email_logs, now, sentMails,
                 scanVars, selectedEventId, mail>>

(***************************************************************************)
(* AppContent: the hash router.                                            *)
(***************************************************************************)
\* The hashes a browser may be sent to (window.location.hash.slice(1)).
Hashes == {"", "dashboard", "events", "guests", "mail", "qr-editor", "scanner",
           "history", "analytics", "settings", "nowhere"}

Roles == {"super_admin", "scanner_admin"}

\* Before sign-in: no admin, no hash, currentPage = ''.
NoRoute == [admin |-> "none", hash |-> "", currentPage |-> ""]

\* Lines 20-30: handleHashChange.
handleHashChange(r) ==
  IF r.hash # "" THEN [r EXCEPT !.currentPage = r.hash]
  ELSE IF r.admin # "none"
       THEN LET defaultPage == IF r.admin = "scanner_admin" THEN "scanner"
                               ELSE "dashboard"
            IN [r EXCEPT !.hash = defaultPage, !.currentPage = defaultPage]
       ELSE r

\* Mutant of renderPage: the scanner_admin branch is missing.
renderPage_NoRoleBranch(r) ==
  CASE r.admin = "none" -> "Login"
    [] r.currentPage = "dashboard" -> "Dashboard"
    [] r.currentPage = "events" -> "Events"
    [] r.currentPage = "guests" -> "Guests"
    [] r.currentPage = "mail" -> "MailInvitations"
    [] r.currentPage = "qr-editor" -> "QREditor"
    [] r.currentPage = "scanner" -> "Scanner"
    [] r.currentPage = "history" -> "History"
    [] r.currentPage = "analytics" -> "Analytics"
    [] r.currentPage = "settings" -> "AdminSettings"
    [] OTHER -> "Dashboard"

\* Lines 45-87: what AppContent renders (Login without an admin).
renderPage(r) ==
  IF r.admin = "none" THEN "Login"
  ELSE IF r.admin = "scanner_admin"
  THEN CASE r.currentPage = "scanner" -> "Scanner"
         [] r.currentPage = "history" -> "History"
         [] OTHER -> "Scanner"
  ELSE CASE r.currentPage = "dashboard" -> "Dashboard"
         [] r.currentPage = "events" -> "Events"
         [] r.currentPage = "guests" -> "Guests"
         [] r.currentPage = "mail" -> "MailInvitations"
         [] r.currentPage = "qr-editor" -> "QREditor"
         [] r.currentPage = "scanner" -> "Scanner"
         [] r.currentPage = "history" -> "History"
         [] r.currentPage = "analytics" -> "Analytics"
         [] r.currentPage = "settings" -> "AdminSettings"
         [] OTHER -> "Dashboard"

\* A hashchange event: a link of the navigation, or an address typed in.
Navigate ==
  /\ \E o \in Operators, h \in Hashes :
       route' = [route EXCEPT ![o] = handleHashChange([@ EXCEPT !.hash = h])]
  /\ UNCHANGED <<storeVars, sentMails, scanVars, selectedEventId, mail, gen,
                 sheet, extraVars>>

\* The admin profile arrives after sign-in: the effect of lines 19-35 runs
\* again with the new admin.
SignIn ==
  /\ \E o \in Operators, role \in Roles :
       /\ route[o].admin = "none"
       /\ route' = [route EXCEPT ![o] = handleHashChange([@ EXCEPT !.admin = role])]
  /\ UNCHANGED <<storeVars, sentMails, scanVars, selectedEventId, mail, gen,
                 sheet, extraVars>>

\* Sign-out: admin becomes null; hash and currentPage stay.
SignOut ==
  /\ \E o \in Operators :
       /\ route[o].admin # "none"
       /\ route' = [route EXCEPT ![o] = handleHashChange([@ EXCEPT !.admin = "none"])]
  /\ UNCHANGED <<storeVars, sentMails, scanVars, selectedEventId, mail, gen,
                 sheet, extraVars>>

NextRoute == Navigate \/ SignIn \/ SignOut

(***************************************************************************)
(* Sign-in: Firebase Auth, the admins collection, AuthProvider and the     *)
(* Login page of one browser tab (contexts/AuthContext.tsx, lib/firebase,  *)
(* pages/Login.tsx, App).                                                  *)
(***************************************************************************)
\* The Google accounts that sign in: u1 has an admin profile, u2 has none.
Users == {"u1", "u2"}
NoUser == "none"
NoAdmin == [id |-> "none", role |-> "none", google_linked |-> FALSE]

\* The admins collection at the start: one document, of u1.
InitialAdmins == {[id |-> "u1", role |-> "super_admin", google_linked |-> FALSE]}

\* The accounts with an email and a password: signUpWithEmail creates them
\* together with their admin document.
EmailAccounts == {a.id : a \in InitialAdmins}

\* Sign-ins (popup, email) of one behaviour.
MaxSignIns == 3

AccessDenied == "Access denied. Contact your administrator to get an account."
PopupBlocked == "popup-closed-by-user"
IncorrectPassword == "Incorrect password"

\* lib/firebase.ts, fetchAdminProfile, when no call of the store fails: the
\* document of the user, by document id or by its id field; when there is
\* none, a new scanner_admin document is stored and returned.
fbFetchAdminProfile(docs, userId) ==
  IF \E d \in docs : d.id = userId
  THEN [data |-> CHOOSE d \in docs : d.id = userId, admins |-> docs]
  ELSE LET newAdmin == [id |-> userId, role |-> "scanner_admin",
                        google_linked |-> FALSE]
       IN [data |-> newAdmin, admins |-> docs \cup {newAdmin}]

\* setDoc(adminRef, {google_linked: true}, {merge: true}).
SetGoogleLinked(docs, userId) ==
  IF \E d \in docs : d.id = userId
  THEN {IF d.id = userId THEN [d EXCEPT !.google_linked = TRUE] ELSE d : d \in docs}
  ELSE docs \cup {[id |-> userId, role |-> "none", google_linked |-> TRUE]}

\* The tab after the page is loaded with currentUser signed in (or nobody):
\* the state of AuthProvider and Login is new, Firebase Auth calls the
\* listener once with the current user.
Loaded(a, currentUser) ==
  [a EXCEPT !.currentUser = currentUser, !.changes = <<currentUser>>,
            !.user = NoUser, !.admin = NoAdmin, !.loading = TRUE,
            !.fetches = {}, !.signin = [pc |-> "idle", uid |-> NoUser],
            !.error = "", !.isLoading = FALSE]

AuthInit ==
  Loaded([currentUser |-> NoUser, changes |-> <<>>, user |-> NoUser,
          admin |-> NoAdmin, loading |-> TRUE, fetches |-> {},
          signin |-> [pc |-> "idle", uid |-> NoUser], error |-> "",
          isLoading |-> FALSE, admins |-> InitialAdmins, token |-> FALSE,
          n |-> 0], NoUser)

\* App, lines 37-87: the spinner, Login, or the page of the admin's role.
Shown(a) ==
  IF a.loading THEN "Loading"
  ELSE IF a.user = NoUser \/ a.admin = NoAdmin THEN "Login"
  ELSE renderPage(handleHashChange([NoRoute EXCEPT !.admin = a.admin.role]))

\* Login unmounts when another page is shown: its isLoading and error go.
Rendered(a) ==
  IF Shown(a) = "Login" THEN a
  ELSE [a EXCEPT !.isLoading = FALSE, !.error = ""]

\* AuthContext lines 49-58: the listener of auth.onAuthStateChanged.
onAuthStateChanged ==
  /\ auth.changes # <<>>
  /\ LET u == Head(auth.changes)
         a == [auth EXCEPT !.changes = Tail(@), !.user = u]
     IN auth' = Rendered(IF u # NoUser
                         THEN [a EXCEPT !.fetches = @ \cup {u}]
                         ELSE [a EXCEPT !.admin = NoAdmin, !.loading = FALSE])
  /\ UNCHANGED <<storeVars, sentMails, scanVars, selectedEventId, mail, gen,
                 route, sheet, classified, bulk>>

\* AuthContext lines 63-75: a call of fetchAdminProfile comes back, with the
\* profile or with an error of the store.
fetchAdminProfile ==
  /\ \E userId \in auth.fetches :
       LET r == fbFetchAdminProfile(auth.admins, userId)
           a == [auth EXCEPT !.fetches = @ \ {userId}, !.loading = FALSE]
       IN \/ auth' = Rendered([a EXCEPT !.admin = r.data, !.admins = r.admins])
          \/ auth' = Rendered([a EXCEPT !.admin = NoAdmin])
  /\ UNCHANGED <<storeVars, sentMails, scanVars, selectedEventId, mail, gen,
                 route, sheet, classified, bulk>>

\* Login lines 13-23 and AuthContext lines 77-88: Continue with Google; the
\* popup comes back with an account, or the user closes it.
SignInPopup ==
  /\ Shown(auth) = "Login"
  /\ ~auth.isLoading
  /\ auth.signin.pc = "idle"
  /\ auth.n < MaxSignIns
  /\ \/ \E u \in Users :
          auth' = [auth EXCEPT !.n = @ + 1, !.isLoading = TRUE, !.error = "",
                               !.currentUser = u,
                               !.changes = Append(@, u),
                               !.signin = [pc |-> "check", uid |-> u]]
     \/ auth' = [auth EXCEPT !.n = @ + 1, !.isLoading = FALSE,
                             !.error = PopupBlocked]
  /\ UNCHANGED <<storeVars, sentMails, scanVars, selectedEventId, mail, gen,
                 route, sheet, classified, bulk>>

\* AuthContext lines 91-98 and 115-133: the profile check of the sign-in.
\* Its throw, and a failure of the fetch, are caught by the catch of the
\* popup, which goes on with signInWithRedirect: the page is loaded again
\* with the account signed in.
SignInCheck ==
  /\ auth.signin.pc = "check"
  /\ LET uid == auth.signin.uid
         r == fbFetchAdminProfile(auth.admins, uid)
     IN \/ auth' = IF r.data = NoAdmin
                   THEN Loaded(auth, uid)
                   ELSE [auth EXCEPT !.admins = r.admins, !.token = TRUE,
                                     !.signin.pc = "link"]
        \/ auth' = Loaded(auth, uid)
  /\ UNCHANGED <<storeVars, sentMails, scanVars, selectedEventId, mail, gen,
                 route, sheet, classified, bulk>>

\* AuthContext lines 106-114: the profile is marked google_linked; a
\* rejected write goes the way of the redirect too.
SignInLink ==
  /\ auth.signin.pc = "link"
  /\ LET uid == auth.signin.uid
     IN \/ auth' = [auth EXCEPT !.admins = SetGoogleLinked(@, uid),
                                !.signin = [pc |-> "idle", uid |-> NoUser]]
        \/ auth' = Loaded(auth, uid)
  /\ UNCHANGED <<storeVars, sentMails, scanVars, selectedEventId, mail, gen,
                 route, sheet, classified, bulk>>

signInWithGoogle == SignInPopup \/ SignInCheck \/ SignInLink

\* Login lines 25-42 and AuthContext lines 147-163: sign-in with email and
\* password, accepted or refused.
signInWithEmail ==
  /\ Shown(auth) = "Login"
  /\ ~auth.isLoading
  /\ auth.n < MaxSignIns
  /\ \/ \E u \in EmailAccounts :
          auth' = [auth EXCEPT !.n = @ + 1, !.isLoading = TRUE, !.error = "",
                               !.currentUser = u,
                               !.changes = Append(@, u)]
     \/ auth' = [auth EXCEPT !.n = @ + 1, !.isLoading = FALSE,
                             !.error = IncorrectPassword]
  /\ UNCHANGED <<storeVars, sentMails, scanVars, selectedEventId, mail, gen,
                 route, sheet, classified, bulk>>

\* Layout and AuthContext lines 196-237: Link Google Account; after the
\* popup and the write, the profile is fetched again.
linkGoogleAccount ==
  /\ Shown(auth) \notin {"Login", "Loading"}
  /\ auth.signin.pc = "idle"
  /\ ~auth.token
  /\ auth' = [auth EXCEPT !.token = TRUE,
                          !.admins = SetGoogleLinked(@, auth.user),
                          !.fetches = @ \cup {auth.user}]
  /\ UNCHANGED <<storeVars, sentMails, scanVars, selectedEventId, mail, gen,
                 route, sheet, classified, bulk>>

\* AuthContext lines 239-248: signOut.
signOut ==
  /\ Shown(auth) \notin {"Login", "Loading"}
  /\ auth.currentUser # NoUser
  /\ auth' = [auth EXCEPT !.currentUser = NoUser,
                          !.changes = Append(@, NoUser),
                          !.user = NoUser, !.admin = NoAdmin]
  /\ UNCHANGED <<storeVars, sentMails, scanVars, selectedEventId, mail, gen,
                 route, sheet, classified, bulk>>

NextAuth ==
  \/ onAuthStateChanged
  \/ fetchAdminProfile
  \/ signInWithGoogle
  \/ signInWithEmail
  \/ linkGoogleAccount
  \/ signOut


(***************************************************************************)
(* Specifications.                                                         *)
(***************************************************************************)
Init ==
  /\ events = InitialEvents
  /\ passes = <<>>
  /\ scan_logs = <<>>
  /\ email_logs = <<>>
  /\ now = 1
  /\ sentMails = <<>>
  /\ pc = [k \in Calls |-> "idle"]
  /\ scan = [k \in Calls |-> NoCall]
  /\ isProcessing = [o \in Operators |-> FALSE]
  /\ lastScannedCode = [o \in Operators |-> <<>>]
  /\ result = [o \in Operators |-> NoResult]
  /\ pre = [k \in Calls |-> NoPre]
  /\ camera = [o \in Operators |-> NoCamera]
  /\ nScans = 0
  /\ selectedEventId = NewestEventId
  /\ mail = MailInit
  /\ gen = NoCode
  /\ route = [o \in Operators |-> NoRoute]
  /\ sheet = <<>>
  /\ classified = {}
  /\ bulk = NoBulk
  /\ auth = AuthInit

\* The gate: guests are added and operators scan, each on an own device.
IssuePass == Len(passes) < MaxGatePasses /\ handleAddGuest

NextScan == IssuePass \/ handleScan

SpecScan == Init /\ [][NextScan]_vars

\* The gate with one scan at a time: a call starts only when no call of
\* another operator is in flight.
handleScanSeq ==
  \E o \in Operators :
    \/ /\ \A q \in Operators \ {o} : ~InFlight(q)
       /\ \E code \in ScannableCodes : ScanStart(o, code)
    \/ ScanLookup(o)
    \/ ScanFetchEvent(o)
    \/ ScanUpdate(o)
    \/ ScanLog(o)
    \/ ScanDismiss(o)

NextScanSeq == IssuePass \/ handleScanSeq

SpecScanSeq == Init /\ [][NextScanSeq]_vars

\* The organizer's desk: guests are added while invitations are dispatched.
\* Ana and Bob are invited in turn; the codes drawn follow the guest.
Invitees == <<[name |-> "Ana", draws |-> <<0, 1, 2, 3, 4, 5>>],
              [name |-> "Bob", draws |-> <<25, 26, 35, 36, 41, 0>>]>>

Invite ==
  /\ handleAddGuest
  /\ LET n == Len(passes')
         guest == Invitees[((n - 1) % Len(Invitees)) + 1]
     IN /\ passes'[n].guest_name = guest.name
        /\ passes'[n].code =
             generateUniqueCode(PrefixOf(CHOOSE e \in events :
                                           e.id = passes'[n].event_id),
                                guest.draws)

NextSend == Invite \/ fetchPasses \/ handleSendEmails

SpecSend == Init /\ [][NextSend]_vars

\* The same desk with progress: every await of the dispatcher settles and
\* its timers fire, so a step of handleSendEmails that stays possible is
\* taken.
SpecSendLive == SpecSend /\ WF_vars(handleSendEmails)

\* generateUniqueCode on its own: one call per step.
GenerateCode ==
  /\ \E prefix \in Prefixes, draws \in DrawSamples :
       gen' = [prefix |-> prefix, draws |-> draws,
               code |-> generateUniqueCode(prefix, draws)]
  /\ UNCHANGED <<storeVars, sentMails, scanVars, selectedEventId, mail, route,
                 sheet, extraVars>>

SpecCode == Init /\ [][GenerateCode]_vars

\* Events are deleted while guests are added, invited and scanned.  The
\* invitations go out before the gate opens and no await of the dispatcher
\* fails; one operator scans one code, once the dispatcher is idle.
Deliver ==
  /\ nScans = 0
  /\ fetchPasses \/ handleSendEmails
  /\ mail'.failures = mail.failures

Admit ==
  /\ mail.pc = "idle"
  /\ mail.fetches = {}
  /\ handleScanSeq
  /\ \A o \in Operators \ {CameraPage} : pc'[o] = "idle" /\ result'[o] = NoResult
  /\ nScans' <= 1

NextEvents == handleDeleteEvent \/ IssuePass \/ Deliver \/ Admit

SpecEvents == Init /\ [][NextEvents]_vars

\* One browser tab from the load of the page: sign-ins, sign-outs, the
\* listener and the profile fetches in any order.
SpecAuth == Init /\ [][NextAuth]_vars

\* The desk with two events: guests are invited to either event, then the
\* organizer changes the event of the Send Invitations page while earlier
\* fetches are still on their way, and dispatches.
\* The guest lists of the events are prepared before the first run.
Prepare == mail.runs = 0 /\ (Invite \/ GuestsSelectEvent)

NextSelect == Prepare \/ MailSelectEvent \/ Deliver

SpecSelect == Init /\ [][NextSelect]_vars

\* The classification of failures alone.
SpecClassify == Init /\ [][ClassifyFailure]_vars

\* One scanner page with its camera: the operator starts and stops the
\* camera, the QrScanner decodes codes, the operator types codes, dismisses
\* result cards, and the timer of the last dismissal fires.
handleScanCamera ==
  \/ startScanning(CameraPage)
  \/ stopScanning(CameraPage)
  \/ \E k \in CameraCalls, code \in ScannableCodes : CameraScan(k, code)
  \/ \E code \in ScannableCodes : ScanStart(CameraPage, code)
  \/ \E k \in CameraCalls \cup {CameraPage} :
       \/ ScanLookup(k)
       \/ ScanFetchEvent(k)
       \/ ScanUpdate(k)
       \/ ScanLog(k)
  \/ ScanDismiss(CameraPage)
  \/ ScanTimeout(CameraPage)

NextCamera == IssuePass \/ handleScanCamera

SpecCamera == Init /\ [][NextCamera]_vars

SpecRoute == Init /\ [][NextRoute]_vars

\* Every way a pass is created: the Guests page (add guest, bulk import,
\* for the event it selects first) and the Google Sheet import of the Send
\* Invitations page (for either event).
NextIntake ==
  \/ handleAddGuest
  \/ handleBulkImport
  \/ MailSelectEvent
  \/ TypeSheet
  \/ SetSheetId
  \/ handleSheetImport

SpecIntake == Init /\ [][NextIntake]_vars

\* The Send Invitations page with a spreadsheet: guests imported from it
\* while nothing is being sent (the import dialog opens from a button that
\* is disabled during a run, line 713), with the first of RandomDraws for
\* their codes, then sent by either button.
RandomDraws_First == <<0, 1, 2, 3, 4, 5>>
SheetInvite ==
  /\ mail.pc = "idle"
  /\ handleSheetImport
  /\ \A n \in (Len(passes) + 1)..Len(passes') :
       passes'[n].code[Len(passes'[n].code)] = chars[RandomDraws_First[CodeLength] + 1]

NextSheet ==
  \/ TypeSheet
  \/ SetSheetId
  \/ SheetInvite
  \/ fetchPasses
  \/ handleSendEmails
  \/ SendSheetSync
  \/ handleSendWithSheetUpdate

SpecSheet == Init /\ [][NextSheet]_vars

\* The Guests page alone.
NextGuests == GuestsSelectEvent \/ handleAddGuest \/ handleBulkImport

SpecGuests == Init /\ [][NextGuests]_vars

(***************************************************************************)
(* Scan validator: claims C1-C5.                                           *)
(***************************************************************************)
\* The step in which the handleScan call of o returns after its log append.
Completes(o) == pc[o] = "addDoc" /\ pc'[o] = "done"

Matched(o) == scan[o].pass # NoPass

Pending(pass) == ~pass.used /\ pass.scanned_at = 0

LastLog == scan_logs[Len(scan_logs)]

C3_NoDoubleValid ==
  \A o1, o2 \in Operators :
    (/\ o1 # o2
     /\ pc[o1] \in {"updateDoc", "addDoc"} /\ pc[o2] \in {"updateDoc", "addDoc"}
     /\ Matched(o1) /\ Matched(o2)
     /\ scan[o1].pass.id = scan[o2].pass.id)
    => ~(Classify(PassOf(o1)) = "valid" /\ Classify(PassOf(o2)) = "valid")

C5_UsedIsTerminal ==
  [][\A id \in PassIds :
       passes[id].used =>
         /\ passes'[id].used
         /\ passes'[id].scanned_at = passes[id].scanned_at
         /\ passes'[id].scanned_by = passes[id].scanned_by
    ]_vars

(***************************************************************************)
(* Claims about the dispatcher (SpecSend).                                 *)
(***************************************************************************)
LastEmailLog == email_logs[Len(email_logs)]

\* The mail service accepted a message for pass id before.
SentBefore(id) == \E k \in 1..Len(sentMails) : sentMails[k] = id

\* C6: a pass whose invitation send has already succeeded is never sent
\* again, across any sequence of runs (also a run started right after a
\* finished one): whenever the mail service has just accepted a message for
\* a pass, that pass had no sent_at and no earlier message.
C6_NeverResent ==
  mail.pc = "updateDoc" =>
    /\ passes[CurrentPass.id].sent_at = 0
    /\ Cardinality({k \in 1..Len(sentMails) : sentMails[k] = CurrentPass.id}) = 1

\* The step of handleSendEmails that ends the success path of an attempt:
\* the mail was accepted, the pass updated and the 'sent' entry stored.
SuccessLogged == mail.pc = "logSent" /\ mail'.pc = "delay"

SendFailed == mail.pc = "logFailed" /\ mail.error.thrownAt = "sendGmail"

\* The status the classification is to give each message of the mail
\* service.
ExpectedStatus(msg) ==
  IF msg \in {"Address not found",
              "Address not found - Invalid email address"}
  THEN "invalid" ELSE "failed"

C9_LoopNeverStops ==
  mail.pc = "aborted" => mail.i = Len(mail.run)

(***************************************************************************)
(* Claims about the Guests page (SpecGuests).                              *)
(***************************************************************************)
\* C10: after any sequence of add-guest and bulk-import operations no two
\* passes of the collection have the same code.
C10_CodesUnique ==
  \A p1 \in PassIds, p2 \in PassIds : p1 # p2 => passes[p1].code # passes[p2].code

(***************************************************************************)
(* Claims about generateUniqueCode (SpecCode).                             *)
(***************************************************************************)
\* The characters of the class [A-Z0-9@#$%&*].
CodeAlphabet ==
  {"A","B","C","D","E","F","G","H","I","J","K","L","M","N","O","P","Q","R","S",
   "T","U","V","W","X","Y","Z"} \cup
  {"0","1","2","3","4","5","6","7","8","9"} \cup {"@","#","$","%","&","*"}

\* code is prefix, '-', then exactly 6 characters of the class.
WellFormedCode(prefix, code) ==
  /\ Len(code) = 8
  /\ code[1] = prefix
  /\ code[2] = "-"
  /\ \A i \in 3..8 : code[i] \in CodeAlphabet

\* C11: for every prefix P, generateUniqueCode(P) is P, then '-', then
\* exactly 6 characters each of A-Z, 0-9, @#$%&*: no other character, no
\* other length.
C11_CodeFormat ==
  gen # NoCode => WellFormedCode(gen.prefix, gen.code)

\* A call with an empty prefix that drew the last character of chars.
C11_Witness ==
  /\ gen # NoCode
  /\ gen.prefix = ""
  /\ gen.code[3] = "*"
  /\ gen.code[8] = "8"

(***************************************************************************)
(* Scan validator: claims C15, C17, C18 (SpecScanSeq).                     *)
(***************************************************************************)
\* The step in which the handleScan call of o returns, from any await.
Returns(o) == InFlight(o) /\ pc'[o] = "done"

\* C15: every handleScan call that got past its guards has appended exactly
\* one scan log entry when it returns, and the status of that entry is the
\* status shown to the operator.
C15_OneLogPerScan ==
  [][\A o \in Operators :
       Returns(o) =>
         /\ Len(scan_logs') = pre[o].nlogs + 1
         /\ scan_logs'[Len(scan_logs')].status = result'[o].status
         /\ scan_logs'[Len(scan_logs')].scanned_code = scan[o].code]_vars

\* The step in which a call whose update was stored returns although the
\* store rejected its log entry.
LogAppendFails(o) ==
  Completes(o) /\ scan[o].updated /\ scan_logs' = scan_logs

\* C17: when a valid scan has marked the pass used and the log append that
\* follows fails, the operator is shown valid and the pass stays used with
\* its scanned_at and scanned_by: nothing is rolled back.
C17_LogFailureKeepsValid ==
  [][\A o \in Operators :
       LogAppendFails(o) =>
         /\ result'[o].status = "valid"
         /\ passes' = passes
         /\ passes'[scan[o].pass.id].used
         /\ passes'[scan[o].pass.id].scanned_at = pre[o].now
         /\ passes'[scan[o].pass.id].scanned_by = o]_vars

\* A valid result on screen, the pass used, and no log entry at all.
C17_Witness ==
  \E o \in Operators :
    /\ pc[o] = "done"
    /\ result[o].status = "valid"
    /\ scan_logs = <<>>
    /\ \E id \in PassIds : passes[id].used /\ passes[id].scanned_by = o

\* The step in which the lookup of the call of o throws.
LookupThrows(o) == pc[o] = "getDocs" /\ pc'[o] = "done"

\* C18: if the pass lookup throws, the scan ends with status invalid, no
\* pass is changed and no log is written, and the in-flight flag is cleared;
\* whenever no call is in flight the flag is clear, so a later scan is
\* taken.
C18_LookupErrorIsInvalid ==
  [][\A o \in Operators :
       /\ LookupThrows(o) =>
            /\ result'[o].status = "invalid"
            /\ passes' = passes
            /\ ~isProcessing'[o]
       /\ (~InFlight(o))' => ~isProcessing'[o]]_vars

\* After a lookup that threw (its card is still on screen) a later scan of a
\* pending pass is under way and has marked the pass used.
C18_Witness ==
  \E o \in Operators :
    /\ result[o] = ErrorResult
    /\ pc[o] = "addDoc"
    /\ Classify(PassOf(o)) = "valid"
    /\ scan[o].updated

PastGuards(k) == ~InFlight(k) /\ pc'[k] = "getDocs"

\* C19: from the moment handleScan starts processing a code until the
\* operator dismisses the result card, no further handleScan of that code on
\* the page gets past the guards: none does while an earlier call for the
\* code is in flight or the card of the code is on screen.
C19_SameCodeSuppressed ==
  [][\A k \in Calls :
       PastGuards(k) =>
         /\ \A j \in Calls \ {k} :
              ~(PageOf(j) = PageOf(k) /\ InFlight(j) /\ scan[j].code = scan'[k].code)
         /\ ~(result[PageOf(k)] # NoResult
              /\ result[PageOf(k)].code = scan'[k].code)]_vars

\* C20: on one scanner page at most one handleScan call is in flight.
C20_OneScanAtATime ==
  \A o \in Operators :
    Cardinality({k \in Calls : PageOf(k) = o /\ InFlight(k)}) <= 1

(***************************************************************************)
(* Claims about pass creation (SpecIntake).                                *)
(***************************************************************************)
\* The event a step creates passes for: the one the running sheet import
\* was started for, else the one selected on the Guests page.
TargetEvent ==
  IF mail.import # NoImport /\ mail' # mail THEN mail.import.event
  ELSE selectedEventId

\* The prefix the codes of an event are to carry.
ExpectedPrefix(e) == IF e.qr_prefix = "" THEN "QRP" ELSE e.qr_prefix

\* pass is PENDING and belongs to the event of id eid.
StartsPending(pass, eid) ==
  /\ pass.event_id = eid
  /\ \E e \in events : e.id = eid /\ WellFormedCode(ExpectedPrefix(e), pass.code)
  /\ pass.used = FALSE
  /\ pass.sent_at = 0
  /\ pass.scanned_at = 0
  /\ pass.scanned_by = ""

\* C12: every pass created by add-guest, bulk import or spreadsheet import
\* starts PENDING: it belongs to the selected event, its code is that event's
\* prefix (QRP when the event has none), '-' and 6 characters, used is false
\* and sent_at, scanned_at, scanned_by are unset; no step touches the passes
\* there were, and adding one guest creates exactly one pass.
C12_NewPassPending ==
  [][/\ Len(passes') >= Len(passes)
     /\ SubSeq(passes', 1, Len(passes)) = passes
     /\ \A n \in (Len(passes) + 1)..Len(passes') :
          StartsPending(passes'[n], TargetEvent)
     /\ handleAddGuest => Len(passes') = Len(passes) + 1]_vars

\* One pass from each source: the sheet import (for the event without a
\* prefix) and the Guests page (for the event with prefix EVTX).
C12_Witness ==
  /\ Len(passes) = 2
  /\ \E n \in PassIds : passes[n].sheet_id # "" /\ passes[n].event_id = "ev2"
                         /\ passes[n].code[1] = "QRP"
  /\ \E n \in PassIds : passes[n].sheet_id = "" /\ passes[n].event_id = "ev1"
                         /\ passes[n].guest_name = "Ana"

\* An iteration of handleSendWithSheetUpdate ends: its pass was attempted.
SheetAttemptEnds ==
  /\ mail.pc \in {"sheetUpdateDoc", "updateGoogleSheet", "sheetCatch"}
  /\ mail'.pc = "sheetDelay"

\* C14: like handleSendEmails, handleSendWithSheetUpdate appends one email
\* log entry for every pass it attempts, of the pass, with status sent
\* only when it set sent_at on the pass.
C14_SheetVariantLogs ==
  [][SheetAttemptEnds =>
       /\ Len(email_logs') = mail.nlogs + 1
       /\ email_logs'[Len(email_logs')].pass_id = CurrentPass.id
       /\ (email_logs'[Len(email_logs')].status = "sent")
            => (passes'[CurrentPass.id].sent_at # 0)]_vars

\* The write-back of a pass whose email was sent throws: in handleSendEmails
\* and in handleSendWithSheetUpdate.
PlainWriteBackFails ==
  /\ mail.pc = "sheetSync"
  /\ mail.error = NoError
  /\ mail'.pc # "sheetSync"
  /\ mail'.failures = mail.failures + 1
SheetWriteBackFailed ==
  /\ mail.pc = "sheetCatch"
  /\ mail.error.thrownAt = "updateGoogleSheet"
  /\ mail'.pc = "sheetDelay"

\* C16: in both dispatchers a spreadsheet failure for a pass whose email was
\* sent leaves the outcome of the pass alone: the pass is counted sent, not
\* failed, and its sent_at stays set.
C16_SheetFailureKeepsOutcome ==
  [][/\ PlainWriteBackFails =>
          /\ mail'.pc = "logSent"
          /\ mail'.status = mail.status
          /\ passes' = passes
     /\ SheetWriteBackFailed =>
          /\ mail'.status.sent = mail.status.sent + 1
          /\ mail'.status.failed = mail.status.failed
          /\ passes'[CurrentPass.id].sent_at # 0]_vars

\* C21: a failure is classified invalid exactly when its cause is the
\* recipient; quota, access token, API, QR and store failures are failed.
C21_InvalidIffRecipient ==
  \A f \in classified : (f.status = "invalid") <=> (f.cause = "recipient")

(***************************************************************************)
(* Claims about the imports (SpecGuests, SpecIntake).                      *)
(***************************************************************************)
\* The lines of a bulk text that have a name and an email.
ExpectedGuests(text) ==
  CASE text = BulkTwoGuests -> <<[name |-> "Ana", email |-> "ana@x.com"],
                                 [name |-> "bob", email |-> "bob@x.com"]>>
    [] text = BulkOneGuest -> <<[name |-> "Ana", email |-> "ana@x.com"]>>
    [] text = BulkNoGuest -> <<>>

\* C23: a bulk import whose inserts the store accepts appends exactly one
\* PENDING pass, of the selected event, for every line with a non-empty name
\* and a non-empty email, in the order of the lines; lines missing either
\* add nothing, and a text without such a line adds no pass.
C23_BulkImportParses ==
  [][handleBulkImport /\ bulk'.rejected = 0 =>
       LET expected == ExpectedGuests(bulk'.text) IN
       /\ Len(passes') = Len(passes) + Len(expected)
       /\ SubSeq(passes', 1, Len(passes)) = passes
       /\ \A i \in 1..Len(expected) :
            /\ passes'[Len(passes) + i].guest_name = expected[i].name
            /\ passes'[Len(passes) + i].guest_email = expected[i].email
            /\ StartsPending(passes'[Len(passes) + i], selectedEventId)]_vars

\* The text with a guest between two lines that do not parse was imported:
\* one pass, for Ana.
C23_Witness ==
  /\ bulk.text = BulkOneGuest
  /\ bulk.alert = Imported(1)
  /\ Len(passes) = 1
  /\ passes[1].guest_name = "Ana"

\* A row of the running handleSheetImport call is done, and the call ends
\* with its alert.
SheetRowDone ==
  /\ mail.import.pc = "rows"
  /\ mail'.import # NoImport
  /\ mail'.import.i = mail.import.i + 1
SheetImportEnds == mail.import.pc = "rows" /\ mail'.import = NoImport

\* C24: an import that created k >= 1 passes tells the operator that
\* exactly k guests were imported, whatever inserts the store rejected: the
\* bulk import in its one step; the spreadsheet import counts every pass it
\* creates and tells the count when it ends.
C24_ImportCountTold ==
  [][/\ (handleBulkImport /\ Len(passes') > Len(passes))
          => bulk'.alert = Imported(Len(passes') - Len(passes))
     /\ SheetRowDone
          => mail'.import.imported - mail.import.imported
               = Len(passes') - Len(passes)
     /\ SheetImportEnds
          => mail'.alert = Imported(mail.import.imported)]_vars

\* A row of a guest: an email, a cell with '@', in column B or in column A;
\* the guest it stands for.
IsGuestRow(row) == Has(Cell(row, 1), "@") \/ Has(Cell(row, 0), "@")
GuestOfRow(row) ==
  IF Has(Cell(row, 1), "@")
  THEN [name |-> trim(Cell(row, 0)), email |-> trim(Cell(row, 1))]
  ELSE [name |-> BeforeAt(trim(Cell(row, 0))), email |-> trim(Cell(row, 0))]

\* The sheet was read and the loop over its rows starts.
SheetLoopStarts == mail.import.pc = "readGoogleSheet" /\ mail'.import.pc = "rows"

\* C26: the spreadsheet import skips the first row only when it is not a
\* guest row, creates one pass for every guest row whose insert the store
\* accepts, with the name and email of the row, and no pass for other rows.
C26_SheetRowsImported ==
  [][/\ SheetLoopStarts /\ mail'.import.i = 1
          => ~IsGuestRow(mail'.import.data[1])
     /\ SheetRowDone =>
          LET row == mail.import.data[mail.import.i + 1] IN
          IF IsGuestRow(row) /\ mail'.import.failed = mail.import.failed
          THEN /\ Len(passes') = Len(passes) + 1
               /\ passes'[Len(passes')].guest_name = GuestOfRow(row).name
               /\ passes'[Len(passes')].guest_email = GuestOfRow(row).email
          ELSE passes' = passes]_vars

C27_ValidMeansUsed ==
  [][\A o \in Operators :
       (Completes(o) /\ result'[o].status = "valid")
         => passes'[scan[o].pass.id].used]_vars

(***************************************************************************)
(* Further claims about the dispatcher (SpecSendLive, SpecSelect).         *)
(***************************************************************************)
\* C28: a run that is in progress eventually ends: the in-progress flag is
\* false again and every pass of the run was counted, sent or failed.
C28_RunEnds ==
  mail.status.inProgress
    ~> (/\ ~mail.status.inProgress
        /\ mail.status.sent + mail.status.failed = mail.status.total)

(***************************************************************************)
(* Claims about sign-in (SpecAuth).                                        *)
(***************************************************************************)
\* C25: a Google sign-in of a user without an admin profile is rejected:
\* its profile check ends with the user signed out and the error 'Access
\* denied' on Login, and no page other than Login (or the spinner) is ever
\* shown to a user who had no admin profile.
C25_NoProfileRejected ==
  [][/\ (SignInCheck /\ \A d \in auth.admins : d.id # auth.signin.uid)
          => (auth'.currentUser = NoUser /\ auth'.error = AccessDenied)
     /\ Shown(auth') \notin {"Login", "Loading"}
          => auth'.user \in {d.id : d \in InitialAdmins}]_vars

\* C29: whenever AuthProvider holds a user and an admin, the admin is the
\* profile of that user.
C29_AdminOfUser ==
  (auth.user # NoUser /\ auth.admin # NoAdmin) => auth.admin.id = auth.user

(***************************************************************************)
(* Claims about the event of a run (SpecSelect).                           *)
(***************************************************************************)
\* C30: every email log entry carries the event_id of the pass it refers
\* to, and a pass is mailed with the details of its own event.
C30_EventOfPass ==
  /\ \A k \in 1..Len(email_logs) :
       email_logs[k].event_id = passes[email_logs[k].pass_id].event_id
  /\ mail.pc = "sendGmail" => CurrentPass.data.event_id = mail.event


====
